---- MODULE Spec2Model ----
(***************************************************************************)
(* Procedural avatar animation core of ui/components/app/                  *)
(* vrm-avatar-scene.tsx: the smoothing utility, the per-frame audio        *)
(* analysis and channel updates of animate(), and the acquisition and      *)
(* teardown of an effect instance (useEffect body, loader callbacks and    *)
(* cleanup).                                                               *)
(*                                                                         *)
(* Numbers.  The code computes in IEEE doubles.  The model computes in     *)
(* fixed point: a number v is the integer v * Scale, products and          *)
(* quotients are truncated toward zero.  Time is counted in ticks of       *)
(* 1/60 s, so that deltaTime * 60 (the exponent of smoothLerp) is the      *)
(* tick count of the frame.  TLC integers are 32 bits wide, hence the      *)
(* split multiplication of Mul.                                            *)
(***************************************************************************)
EXTENDS Integers, Sequences, FiniteSets, TLC

VARIABLES
    ui,       \* the component's React state: mounted, loading, error
    active,   \* the effect instance whose cleanup React still holds (0: none)
    eff,      \* per effect instance: the closure's resources
    anim,     \* per effect instance: the closure's animation state
    frames,   \* animate() executions so far
    plan,     \* the input script the frames of instance 1 are fed from
    lerp      \* a channel under repeated smoothLerp

vars == <<ui, active, eff, anim, frames, plan, lerp>>

\* ------------------------------------------------------------------ numbers

Scale == 1000 * 1000

Abs(x) == IF x < 0 THEN -x ELSE x

Sign(x) == IF x < 0 THEN -1 ELSE 1

Min(a, b) == IF a < b THEN a ELSE b

Max(a, b) == IF a > b THEN a ELSE b

\* floor(a * b / Scale) for a, b >= 0, without an intermediate above 2^31
MulAbs(a, b) ==
    LET a1 == a \div 1000
        a0 == a % 1000
        b1 == b \div 1000
        b0 == b % 1000
        m  == a1 * b0 + a0 * b1
    IN  a1 * b1 + (m \div 1000) + (((m % 1000) * 1000 + a0 * b0) \div Scale)

\* the product of two fixed-point numbers, truncated toward zero
Mul(a, b) == Sign(a) * Sign(b) * MulAbs(Abs(a), Abs(b))

\* the fixed-point value of the fraction n / d (n >= 0, d > 0), truncated
FixRatio(n, d) ==
    LET t == n * 1000
    IN  (t \div d) * 1000 + (((t % d) * 1000) \div d)

\* the fixed-point value of the decimal literal m / 1000
Milli(m) == m * 1000

\* Math.pow(base, k) for a whole number k >= 0 of ticks, by squaring
RECURSIVE Pow(_, _)
Pow(base, k) ==
    IF k = 0 THEN Scale
    ELSE IF k % 2 = 0
         THEN LET h == Pow(base, k \div 2) IN Mul(h, h)
         ELSE Mul(base, Pow(base, k - 1))

\* ------------------------------------------------------ smoothing utility

\* a frame-rate dependent lerp: factor scaled linearly by the frame length
smoothLerpLinear(current, target, factor, deltaTime) ==
    current + Mul(target - current, factor * deltaTime)

\* a lerp by the bare factor, whatever the length of the frame
smoothLerpPerFrame(current, target, factor, deltaTime) ==
    current + Mul(target - current, factor)

\* smoothLerp (deltaTime in ticks: deltaTime * 60 of the code)
smoothLerp(current, target, factor, deltaTime) ==
    LET adjustedFactor == Scale - Pow(Scale - factor, deltaTime)
    IN  current + Mul(target - current, adjustedFactor)

\* ------------------------------------------------------------ Math.sin

Pi == 3141 * 1000 + 593

TwoPi == 2 * Pi

HalfPi == Pi \div 2

\* x folded into [-pi/2, pi/2] with the same sine
SinFold(x) ==
    LET y == x % TwoPi
        z == IF y > Pi THEN y - TwoPi ELSE y
    IN  IF z > HalfPi THEN Pi - z
        ELSE IF z < -HalfPi THEN -Pi - z
        ELSE z

\* Math.sin: the Taylor polynomial of degree 11 on the folded argument
Sin(x) ==
    LET w  == SinFold(x)
        x2 == Mul(w, w)
        p5 == Scale - (x2 \div 110)
        p4 == Scale - Mul(x2 \div 72, p5)
        p3 == Scale - Mul(x2 \div 42, p4)
        p2 == Scale - Mul(x2 \div 20, p3)
        p1 == Scale - Mul(x2 \div 6, p2)
    IN  Max(-Scale, Min(Scale, Mul(w, p1)))

\* Math.cos
Cos(x) == Sin(x + HalfPi)

\* clock.elapsedTime in seconds, from the tick count
Seconds(ticks) == FixRatio(ticks, 60)

\* Math.sin(elapsedTime * w + phase), w in thousandths
SinT(t, w, phase) == Sin(Mul(t, Milli(w)) + phase)

\* Math.cos(elapsedTime * w + phase), w in thousandths
CosT(t, w, phase) == Cos(Mul(t, Milli(w)) + phase)

\* ------------------------------------------------------- easing functions

easeInOutCubic(t) ==
    IF t < Milli(500) THEN 4 * Mul(Mul(t, t), t)
    ELSE LET u == 2 * Scale - 2 * t
         IN  Scale - (Mul(Mul(u, u), u) \div 2)

easeInOutQuad(t) ==
    IF t < Milli(500) THEN 2 * Mul(t, t)
    ELSE LET u == 2 * Scale - 2 * t
         IN  Scale - (Mul(u, u) \div 2)

\* ------------------------------------------------------------- spectra

\* analyser.fftSize
FftSize == 256

\* analyser.frequencyBinCount, the length of dataArray
BinCount == FftSize \div 2

ByteMax == 255

\* s[lo] + ... + s[hi]: slice(lo - 1, hi).reduce((a, b) => a + b, 0)
RECURSIVE SumRange(_, _, _)
SumRange(s, lo, hi) ==
    IF lo > hi THEN 0
    ELSE IF lo = hi THEN s[lo]
    ELSE LET mid == (lo + hi) \div 2
         IN  SumRange(s, lo, mid) + SumRange(s, mid + 1, hi)

\* a spectrum of the given byte sum, spread as evenly as bytes allow
FlatSpectrum(sum) ==
    [b \in 1..BinCount |->
        (sum \div BinCount) + (IF b <= sum % BinCount THEN 1 ELSE 0)]

\* the spectrum whose mean magnitude is nearest to m / 1000
VolumeSpectrum(m) == FlatSpectrum((m * BinCount * ByteMax + 500) \div 1000)

\* bins lo..hi at the given level, the others silent
BandSpectrum(lo, hi, level) ==
    [b \in 1..BinCount |-> IF lo <= b /\ b <= hi THEN level ELSE 0]

SpectrumTable ==
    [ v0     |-> VolumeSpectrum(0),
      v10    |-> VolumeSpectrum(10),
      v15    |-> VolumeSpectrum(15),
      v16    |-> VolumeSpectrum(16),
      v18    |-> VolumeSpectrum(18),
      v20    |-> VolumeSpectrum(20),
      v22    |-> VolumeSpectrum(22),
      v25    |-> VolumeSpectrum(25),
      v30    |-> VolumeSpectrum(30),
      low    |-> BandSpectrum(1, BinCount \div 3, 200),
      high   |-> BandSpectrum(2 * (BinCount \div 3) + 1, BinCount, ByteMax),
      full   |-> BandSpectrum(1, BinCount, ByteMax) ]

\* --------------------------------------------- animate(): channel state

RawChannels == {"spine.x", "spine.z", "chest.x", "hips.y"}

ArmChannels ==
    {"leftUpperArm.x", "leftUpperArm.y", "leftUpperArm.z",
     "rightUpperArm.x", "rightUpperArm.y", "rightUpperArm.z",
     "leftLowerArm.x", "rightLowerArm.x",
     "leftHand.x", "leftHand.y", "leftHand.z",
     "rightHand.x", "rightHand.y", "rightHand.z"}

ShoulderChannels ==
    {"leftShoulder.z", "leftShoulder.y", "rightShoulder.z", "rightShoulder.y"}

BodyChannels == RawChannels \cup ArmChannels \cup ShoulderChannels

\* fingerBones, by index
FingerBones == 0..29

\* the initial value of a body channel and of its target
BodyRest(c) ==
    CASE c = "leftUpperArm.z"  -> -Milli(1200)
      [] c = "rightUpperArm.z" -> Milli(1200)
      [] c \in {"leftLowerArm.x", "rightLowerArm.x"} -> -Milli(200)
      [] OTHER -> 0

\* { x: 0, y: 0, z: 0 }
Origin == [x |-> 0, y |-> 0, z |-> 0]

\* the keys of expressionValues and targetExpressionValues
ExpressionKeys ==
    {"happy", "surprised", "relaxed", "neutral", "sad", "angry", "blink"}

\* the expressions animate() hands to vrm.expressionManager.setValue
AppliedKeys ==
    {"aa", "ih", "ou", "oh", "blink", "happy", "surprised", "relaxed",
     "neutral"}

\* the closure's animation state when the effect body has run, with
\* Math.random() of nextBlinkTime = 2 + Math.random() * 3 drawn as 0;
\* gestureSelected, moodSelected, bodyThrew and thrownFrames record what
\* the frames did: they are observations, not variables of the closure
AnimInit ==
    [ clockRunning          |-> FALSE,
      elapsed               |-> 0,
      deltaTime             |-> 0,
      frameCount            |-> 0,
      isSpeaking            |-> FALSE,
      speechIntensity       |-> 0,
      targetSpeechIntensity |-> 0,
      audioVolume           |-> 0,
      lowFreq               |-> 0,
      midFreq               |-> 0,
      highFreq              |-> 0,
      readThrew             |-> FALSE,
      mouthShapes           |-> [aa |-> 0, ih |-> 0, ou |-> 0, oh |-> 0],
      targetMouthShapes     |-> [aa |-> 0, ih |-> 0, ou |-> 0, oh |-> 0],
      bone                  |-> [c \in BodyChannels |-> BodyRest(c)],
      target                |-> [c \in BodyChannels |-> BodyRest(c)],
      finger                |-> [f \in FingerBones |-> 0],
      fingerTarget          |-> [f \in FingerBones |-> 0],
      gesturePhase          |-> 0,
      currentGesture        |-> 0,
      nextGestureTime       |-> 0,
      gestureTransitionProgress |-> 0,
      previousGesture       |-> 0,
      headRotation          |-> Origin,
      targetHeadRotation    |-> Origin,
      previousHeadRotation  |-> Origin,
      newTargetHeadRotation |-> Origin,
      blendedHeadRotation   |-> Origin,
      neckRotation          |-> Origin,
      targetNeckRotation    |-> Origin,
      eyebrowIntensity      |-> 0,
      targetEyebrowIntensity |-> 0,
      currentExpression     |-> "neutral",
      previousExpression    |-> "neutral",
      expressionIntensity   |-> 0,
      targetExpressionIntensity |-> 0,
      nextExpressionTime    |-> 0,
      expressionTransitionProgress |-> Scale,
      expressionValues      |-> [k \in ExpressionKeys |-> 0],
      targetExpressionValues |-> [k \in ExpressionKeys |-> 0],
      nextBlinkTime         |-> Milli(2000),
      applied               |-> [k \in AppliedKeys |-> 0],
      gestureSelected       |-> FALSE,
      moodSelected          |-> FALSE,
      bodyThrew             |-> FALSE,
      thrownFrames          |-> 0 ]

\* ------------------------------------------- animate(): audio analysis

\* speech detection without hysteresis: one threshold for both directions
SpeakingThresholdSingle(isSpeaking) == Milli(25)

\* the two thresholds exchanged
SpeakingThresholdSwapped(isSpeaking) ==
    IF isSpeaking THEN Milli(25) ELSE Milli(15)

\* speakingThreshold
SpeakingThreshold(isSpeaking) == IF isSpeaking THEN Milli(15) ELSE Milli(25)

\* an analysis that takes a missing analyser for a speaking source
AudioAnalysisAssumingSpeech(a, analyser, dataArray, throws) ==
    [a EXCEPT !.audioVolume = 0, !.lowFreq = 0, !.midFreq = 0,
              !.highFreq = 0, !.readThrew = FALSE,
              !.isSpeaking = ~(analyser /\ Len(dataArray) > 0),
              !.targetSpeechIntensity =
                  IF analyser /\ Len(dataArray) > 0 THEN 0 ELSE Scale]

\* the block guarded by 'analyser && dataArray.length > 0'; throws: whether
\* analyser.getByteFrequencyData threw; audioVolume, lowFreq, midFreq and
\* highFreq are locals of the frame, kept in the record to be observed
AudioAnalysis(a, analyser, dataArray, throws) ==
    LET fresh == [a EXCEPT !.audioVolume = 0, !.lowFreq = 0, !.midFreq = 0,
                           !.highFreq = 0, !.readThrew = FALSE]
        length == Len(dataArray)
        third == length \div 3
        audioVolume == FixRatio(SumRange(dataArray, 1, length),
                                length * ByteMax)
        lowFreq  == FixRatio(SumRange(dataArray, 1, third), third * ByteMax)
        midFreq  == FixRatio(SumRange(dataArray, third + 1, third * 2),
                             third * ByteMax)
        highFreq == FixRatio(SumRange(dataArray, third * 2 + 1, length),
                             third * ByteMax)
        isSpeaking == audioVolume > SpeakingThreshold(a.isSpeaking)
    IN  IF ~(analyser /\ length > 0) THEN fresh
        ELSE IF throws THEN [fresh EXCEPT !.readThrew = TRUE]
        ELSE [fresh EXCEPT
                !.audioVolume = audioVolume,
                !.lowFreq = lowFreq,
                !.midFreq = midFreq,
                !.highFreq = highFreq,
                !.isSpeaking = isSpeaking,
                !.targetSpeechIntensity =
                    IF isSpeaking THEN Min(audioVolume * 2, Scale) ELSE 0]

\* speechIntensity = smoothLerp(speechIntensity, targetSpeechIntensity, 0.15, ..)
SpeechIntensityStep(a) ==
    [a EXCEPT !.speechIntensity =
        smoothLerp(@, a.targetSpeechIntensity, Milli(150), a.deltaTime)]

\* mouth targets that keep their last value when speech ends
MouthTargetsHeld(a) ==
    IF a.isSpeaking
    THEN [aa |-> Mul(a.lowFreq, Milli(800)),
          ih |-> Mul(a.highFreq, Milli(600)),
          ou |-> Mul(a.midFreq, Milli(500)),
          oh |-> Mul(a.lowFreq + a.midFreq, Milli(400))]
    ELSE a.targetMouthShapes

\* targetMouthShapes
MouthTargets(a) ==
    IF a.isSpeaking
    THEN [aa |-> Mul(a.lowFreq, Milli(800)),
          ih |-> Mul(a.highFreq, Milli(600)),
          ou |-> Mul(a.midFreq, Milli(500)),
          oh |-> Mul(a.lowFreq + a.midFreq, Milli(400))]
    ELSE [aa |-> 0, ih |-> 0, ou |-> 0, oh |-> 0]

\* the mouth targets and their smoothing
MouthStep(a) ==
    LET t == MouthTargets(a)
    IN  [a EXCEPT
            !.targetMouthShapes = t,
            !.mouthShapes =
                [k \in DOMAIN t |->
                    smoothLerp(a.mouthShapes[k], t[k], Milli(250), a.deltaTime)]]

\* --------------------------------------------------- animate(): the body

\* gestureIntensity = baseGestureIntensity * emphasisMultiplier
GestureIntensity(si) ==
    Mul(Min(Mul(si, Milli(250)), Milli(150)),
        IF si > Milli(500) THEN Milli(1600) ELSE Milli(1100))

\* breathCycle + speakingBreath
Breath(t, isSpeaking, si) ==
    Mul(SinT(t, 1200, 0), Milli(8))
        + (IF isSpeaking THEN Mul(si, Milli(15)) ELSE 0)

\* the target of a body channel while speaking
SpeakingTarget(c, t, si) ==
    LET g == GestureIntensity(si)
        lower == Mul(g, Milli(1100))
    IN  CASE c = "leftUpperArm.x"  -> Mul(Mul(SinT(t, 1100, 0), g), Milli(1200))
          [] c = "leftUpperArm.y"  -> Mul(Mul(CosT(t, 850, 0), g), Milli(700))
          [] c = "leftUpperArm.z"  ->
                -Milli(1200) + Mul(Mul(SinT(t, 750, 0), g), Milli(600))
          [] c = "rightUpperArm.x" ->
                Mul(Mul(SinT(t, 1100, Milli(1500)), g), Milli(1200))
          [] c = "rightUpperArm.y" -> Mul(Mul(-CosT(t, 850, 0), g), Milli(700))
          [] c = "rightUpperArm.z" ->
                Milli(1200) - Mul(Mul(SinT(t, 750, Milli(1500)), g), Milli(600))
          [] c = "leftLowerArm.x"  -> -Milli(200) + Mul(SinT(t, 1400, 0), lower)
          [] c = "rightLowerArm.x" -> -Milli(200) + Mul(CosT(t, 1400, 0), lower)
          [] c = "leftHand.x"  -> Mul(Mul(SinT(t, 1600, 0), g), Milli(400))
          [] c = "leftHand.y"  -> Mul(Mul(CosT(t, 1300, 0), g), Milli(350))
          [] c = "leftHand.z"  -> Mul(Mul(SinT(t, 1100, 0), g), Milli(350))
          [] c = "rightHand.x" ->
                Mul(Mul(SinT(t, 1600, Milli(1000)), g), Milli(400))
          [] c = "rightHand.y" -> Mul(Mul(-CosT(t, 1300, 0), g), Milli(350))
          [] c = "rightHand.z" -> Mul(Mul(CosT(t, 1100, 0), g), Milli(350))

\* an idle pose without the sway of the upper arms
IdleTargetFixed(c, t) == BodyRest(c)

\* the target of an arm or hand channel in the relaxed idle pose
IdleTarget(c, t) ==
    CASE c = "leftUpperArm.x"  -> Mul(SinT(t, 650, 0), Milli(12))
      [] c = "rightUpperArm.x" -> Mul(SinT(t, 650, Pi), Milli(12))
      [] OTHER -> BodyRest(c)

\* the target of a shoulder channel
ShoulderTarget(c, t, isSpeaking, si) ==
    IF isSpeaking /\ si > Milli(350)
    THEN CASE c = "leftShoulder.z"  -> Mul(SinT(t, 1300, 0), Milli(30))
           [] c = "leftShoulder.y"  -> Mul(CosT(t, 1100, 0), Milli(15))
           [] c = "rightShoulder.z" -> Mul(-SinT(t, 1300, 0), Milli(30))
           [] c = "rightShoulder.y" -> Mul(-CosT(t, 1100, 0), Milli(15))
    ELSE 0

\* the formula of a channel that has no smoothed state of its own
RawTarget(c, t, isSpeaking, si) ==
    CASE c = "spine.x" -> Breath(t, isSpeaking, si)
      [] c = "spine.z" -> Mul(SinT(t, 600, 0), Milli(6))
      [] c = "chest.x" -> Mul(Breath(t, isSpeaking, si), Milli(500))
      [] c = "hips.y"  -> Mul(SinT(t, 500, 0), Milli(5))

\* the value the frame computes for a body channel before any smoothing
BodyTarget(c, t, isSpeaking, si) ==
    IF c \in RawChannels THEN RawTarget(c, t, isSpeaking, si)
    ELSE IF c \in ShoulderChannels THEN ShoulderTarget(c, t, isSpeaking, si)
    ELSE IF isSpeaking THEN SpeakingTarget(c, t, si)
    ELSE IdleTarget(c, t)

\* the factor of the smoothLerp call of a smoothed body channel
BodyRate(c) == IF c \in ShoulderChannels THEN Milli(80) ELSE Milli(100)

\* the value written to the bone of a body channel
BodyWrite(c, current, target, deltaTime) ==
    IF c \in RawChannels THEN target
    ELSE smoothLerp(current, target, BodyRate(c), deltaTime)

\* fingerCurl of finger bone f, or 0
FingerTarget(f, t, isSpeaking, si) ==
    IF isSpeaking /\ si > Milli(300)
    THEN Mul(Mul(Sin(Mul(t, Milli(1500)) + f * Milli(200)), si), Milli(150))
    ELSE 0

\* spine, chest, arms, hands, shoulders, hips and fingers
BodyStep(a) ==
    LET t  == Seconds(a.elapsed)
        si == a.speechIntensity
        tg == [c \in BodyChannels |-> BodyTarget(c, t, a.isSpeaking, si)]
        ft == [f \in FingerBones |-> FingerTarget(f, t, a.isSpeaking, si)]
    IN  [a EXCEPT
            !.target = tg,
            !.bone = [c \in BodyChannels |->
                         BodyWrite(c, a.bone[c], tg[c], a.deltaTime)],
            !.fingerTarget = ft,
            !.finger = [f \in FingerBones |->
                           smoothLerp(a.finger[f], ft[f], Milli(100), a.deltaTime)]]

\* ------------------------------------- animate(): expressions and blink

\* the values of Math.random() a frame may consume, one per call site
NoRandom ==
    [gesture |-> 0, gestureTime |-> 0, mood |-> 0, moodIntensity |-> 0,
     moodTime |-> 0, blink |-> 0]

\* const expressions
Expressions == << "happy", "surprised", "thinking", "relaxed" >>

\* a mood is selected whatever the progress of the previous transition
ExpressionDueIgnoringTransition(a, t) ==
    a.isSpeaking /\ t >= a.nextExpressionTime

\* the condition under which a new mood is selected
ExpressionDue(a, t) ==
    /\ a.isSpeaking
    /\ t >= a.nextExpressionTime
    /\ a.expressionTransitionProgress >= Scale

\* a mood sub-machine that lets the mood fade: silence leaves the mood and
\* its target intensity as they are
ExpressionStepKeepingMood(a, t, dts, rnd) ==
    LET a1 == IF a.isSpeaking /\ t >= a.nextExpressionTime
                 /\ a.expressionTransitionProgress >= Scale
              THEN [a EXCEPT
                      !.previousExpression = a.currentExpression,
                      !.currentExpression =
                          (<< "happy", "surprised", "thinking", "relaxed" >>)
                              [(rnd.mood * 4) \div Scale + 1],
                      !.targetExpressionIntensity =
                          Milli(250) + Mul(rnd.moodIntensity, Milli(350)),
                      !.nextExpressionTime =
                          t + Milli(2500) + Mul(rnd.moodTime, Milli(3000)),
                      !.expressionTransitionProgress = 0,
                      !.moodSelected = TRUE]
              ELSE [a EXCEPT !.moodSelected = FALSE]
    IN  [a1 EXCEPT
            !.expressionTransitionProgress =
                IF @ < Scale THEN Min(Scale, @ + Mul(dts, Milli(800))) ELSE @,
            !.expressionIntensity =
                smoothLerp(@, a1.targetExpressionIntensity, Milli(80),
                           a.deltaTime)]

\* the mood sub-machine, the transition progress and expressionIntensity;
\* t: elapsedTime, dts: deltaTime in seconds
ExpressionStep(a, t, dts, rnd) ==
    LET a1 == IF ExpressionDue(a, t)
              THEN [a EXCEPT
                      !.previousExpression = a.currentExpression,
                      !.currentExpression =
                          Expressions[(rnd.mood * Len(Expressions)) \div Scale + 1],
                      !.targetExpressionIntensity =
                          Milli(250) + Mul(rnd.moodIntensity, Milli(350)),
                      !.nextExpressionTime =
                          t + Milli(2500) + Mul(rnd.moodTime, Milli(3000)),
                      !.expressionTransitionProgress = 0,
                      !.moodSelected = TRUE]
              ELSE IF ~a.isSpeaking /\ a.currentExpression # "neutral"
              THEN [a EXCEPT
                      !.previousExpression = a.currentExpression,
                      !.currentExpression = "neutral",
                      !.targetExpressionIntensity = 0,
                      !.expressionTransitionProgress = 0,
                      !.moodSelected = FALSE]
              ELSE [a EXCEPT !.moodSelected = FALSE]
    IN  [a1 EXCEPT
            !.expressionTransitionProgress =
                IF @ < Scale THEN Min(Scale, @ + Mul(dts, Milli(800))) ELSE @,
            !.expressionIntensity =
                smoothLerp(@, a1.targetExpressionIntensity, Milli(80),
                           a.deltaTime)]

\* Math.max(0, 1 - Math.abs(elapsedTime - nextBlinkTime + 0.15) / 0.15)
BlinkProgress(t, nextBlinkTime) ==
    LET d == Abs(t - nextBlinkTime + Milli(150))
    IN  IF d >= Milli(150) THEN 0 ELSE Scale - FixRatio(d, Milli(150))

\* BlinkStep with the timer reseeded in speaking frames too
BlinkStepWhileSpeaking(a, t, rnd) ==
    LET next == IF t >= a.nextBlinkTime
                THEN t + Milli(2500) + Mul(rnd.blink, Milli(3500))
                ELSE a.nextBlinkTime
    IN  [a EXCEPT
            !.nextBlinkTime = next,
            !.targetExpressionValues =
                [@ EXCEPT !["blink"] = easeInOutCubic(BlinkProgress(t, next))]]

\* natural blinking: the timer and targetExpressionValues.blink
BlinkStep(a, t, rnd) ==
    LET next == IF t >= a.nextBlinkTime /\ ~a.isSpeaking
                THEN t + Milli(2500) + Mul(rnd.blink, Milli(3500))
                ELSE a.nextBlinkTime
    IN  [a EXCEPT
            !.nextBlinkTime = next,
            !.targetExpressionValues =
                [@ EXCEPT !["blink"] = easeInOutCubic(BlinkProgress(t, next))]]

\* targetExpressionValues of the emotive weights
ExpressionTargets(a) ==
    LET e  == easeInOutQuad(a.expressionTransitionProgress)
        w(m) == Mul(Mul(a.expressionIntensity, Milli(m)), e)
        cur == a.currentExpression
        zero == [k \in ExpressionKeys |->
                    IF k = "blink" THEN a.targetExpressionValues[k] ELSE 0]
    IN  IF ~a.isSpeaking THEN zero
        ELSE IF cur = "happy"
             THEN [zero EXCEPT !["happy"] = w(700), !["relaxed"] = w(200)]
        ELSE IF cur = "surprised"
             THEN [zero EXCEPT !["surprised"] = w(600)]
        ELSE IF cur = "thinking"
             THEN [zero EXCEPT !["neutral"] = w(400), !["relaxed"] = w(300)]
        ELSE IF cur = "relaxed"
             THEN [zero EXCEPT !["relaxed"] = w(500), !["happy"] = w(200)]
        ELSE [zero EXCEPT !["happy"] = Mul(a.speechIntensity, Milli(150))]

\* the expression values handed to the rig without Math.min(..., 1) on the
\* lip shapes and with the targets doubled
ExpressionValuesStepUnclamped(a) ==
    LET tg == [k \in DOMAIN a.targetExpressionValues |->
                  IF k = "blink" THEN a.targetExpressionValues[k]
                  ELSE IF a.isSpeaking THEN 2 * a.expressionIntensity ELSE 0]
        ev == [k \in DOMAIN a.expressionValues |->
                  smoothLerp(a.expressionValues[k], tg[k], Milli(100),
                             a.deltaTime)]
    IN  [a EXCEPT
            !.targetExpressionValues = tg,
            !.expressionValues = ev,
            !.applied =
                [k \in DOMAIN a.applied |->
                    IF k \in DOMAIN a.mouthShapes
                    THEN 2 * a.mouthShapes[k]
                    ELSE ev[k]]]

\* the targets of the emotive weights, the smoothing of all expression
\* values, and the values handed to vrm.expressionManager.setValue
ExpressionValuesStep(a) ==
    LET tg == ExpressionTargets(a)
        ev == [k \in ExpressionKeys |->
                  smoothLerp(a.expressionValues[k], tg[k], Milli(100),
                             a.deltaTime)]
    IN  [a EXCEPT
            !.targetExpressionValues = tg,
            !.expressionValues = ev,
            !.applied =
                [k \in AppliedKeys |->
                    IF k \in DOMAIN a.mouthShapes
                    THEN Min(a.mouthShapes[k], Scale)
                    ELSE ev[k]]]

\* ------------------------------------------- animate(): head and neck

\* the condition under which a new gesture is selected
GestureDue(a, t) == a.isSpeaking /\ t >= a.nextGestureTime

\* the head, neck and eyebrow targets of gesture g; ph: gesturePhase
GestureTargets(g, ph, t) ==
    CASE g = 1 ->
            [head |-> [x |-> Mul(SinT(ph, 2000, 0), Milli(80)),
                       y |-> Mul(SinT(t, 300, 0), Milli(15)),
                       z |-> 0],
             neck |-> [x |-> Mul(SinT(ph, 2000, 0), Milli(25)), y |-> 0, z |-> 0],
             eyebrow |-> Milli(180)]
      [] g = 2 ->
            [head |-> [x |-> Mul(SinT(t, 500, 0), Milli(25)),
                       y |-> Mul(SinT(t, 400, 0), Milli(35)),
                       z |-> Mul(SinT(ph, 1000, 0), Milli(60))],
             neck |-> [x |-> 0, y |-> 0, z |-> Mul(SinT(ph, 1000, 0), Milli(18))],
             eyebrow |-> Milli(120)]
      [] g = 3 ->
            [head |-> [x |-> Mul(SinT(t, 400, 0), Milli(18)),
                       y |-> Mul(SinT(ph, 1800, 0), Milli(55)),
                       z |-> 0],
             neck |-> [x |-> 0, y |-> Mul(SinT(ph, 1800, 0), Milli(18)), z |-> 0],
             eyebrow |-> Milli(80)]
      [] g = 4 ->
            [head |-> [x |-> Milli(40) + Mul(SinT(t, 600, 0), Milli(15)),
                       y |-> Mul(SinT(t, 400, 0), Milli(25)),
                       z |-> 0],
             neck |-> [x |-> Milli(25), y |-> 0, z |-> 0],
             eyebrow |-> Milli(200)]
      [] g = 5 ->
            [head |-> [x |-> Mul(SinT(t, 500, 0), Milli(18)),
                       y |-> Milli(50) + Mul(SinT(ph, 1200, 0), Milli(25)),
                       z |-> Mul(SinT(t, 400, 0), Milli(15))],
             neck |-> [x |-> 0, y |-> Milli(18), z |-> 0],
             eyebrow |-> Milli(80)]
      [] g = 6 ->
            [head |-> [x |-> Milli(60) + Mul(SinT(t, 500, 0), Milli(20)),
                       y |-> Mul(SinT(t, 300, 0), Milli(20)),
                       z |-> Mul(SinT(t, 400, 0), Milli(10))],
             neck |-> [x |-> Milli(30), y |-> 0, z |-> 0],
             eyebrow |-> Milli(100)]
      [] OTHER ->
            [head |-> [x |-> Mul(SinT(t, 500, 0), Milli(20)),
                       y |-> Mul(SinT(t, 400, 0), Milli(28)),
                       z |-> Mul(SinT(t, 300, 0), Milli(12))],
             neck |-> [x |-> Mul(SinT(t, 600, 0), Milli(8)),
                       y |-> Mul(SinT(t, 500, 0), Milli(8)),
                       z |-> 0],
             eyebrow |-> Milli(40)]

\* an idle branch that leaves the gesture selected while speaking in place
IdleHeadKeepingGesture(a, t) ==
    [a EXCEPT
        !.targetEyebrowIntensity = 0,
        !.gesturePhase = 0,
        !.gestureTransitionProgress = Scale,
        !.nextGestureTime = t + Milli(2000),
        !.gestureSelected = FALSE]

\* the idle branch: very gentle looking around
IdleHead(a, t) ==
    [a EXCEPT
        !.targetHeadRotation =
            [x |-> Mul(SinT(t, 350, 0), Milli(35)),
             y |-> Mul(SinT(t, 280, 0), Milli(50)),
             z |-> Mul(SinT(t, 220, 0), Milli(12))],
        !.targetNeckRotation =
            [x |-> Mul(SinT(t, 400, 0), Milli(8)),
             y |-> Mul(SinT(t, 300, 0), Milli(8)),
             z |-> 0],
        !.targetEyebrowIntensity = 0,
        !.currentGesture = 0,
        !.gesturePhase = 0,
        !.gestureTransitionProgress = Scale,
        !.nextGestureTime = t + Milli(2000),
        !.gestureSelected = FALSE]

\* the gesture selection of a speaking frame
GestureSelect(a, t, rnd) ==
    IF GestureDue(a, t)
    THEN [a EXCEPT
            !.previousGesture = a.currentGesture,
            !.previousHeadRotation = a.targetHeadRotation,
            !.currentGesture = (rnd.gesture * 7) \div Scale,
            !.nextGestureTime =
                t + Milli(2000) + Mul(rnd.gestureTime, Milli(2000)),
            !.gesturePhase = 0,
            !.gestureTransitionProgress = 0,
            !.gestureSelected = TRUE]
    ELSE [a EXCEPT !.gestureSelected = FALSE]

\* gestureTransitionProgress advanced without the clamp at 1
GestureProgressUnclamped(progress, dts) ==
    IF progress < Scale THEN progress + Mul(dts, Milli(1500)) ELSE progress

\* gestureTransitionProgress after a frame of dts seconds
GestureProgress(progress, dts) ==
    IF progress < Scale
    THEN Min(Scale, progress + Mul(dts, Milli(1500)))
    ELSE progress

\* a cross-fade that runs from the new target back to the snapshot
BlendReversed(previous, new, eased) ==
    [k \in DOMAIN previous |-> new[k] + Mul(previous[k] - new[k], eased)]

\* the blend between the previous and the new gesture, per axis
Blend(previous, new, eased) ==
    [k \in DOMAIN previous |-> previous[k] + Mul(new[k] - previous[k], eased)]

\* the head target: the blended rotation plus the speech-driven
\* micro-movements on x and y
MicroMovements(blended, si, t) ==
    [x |-> blended.x + Mul(Mul(si, SinT(t, 2200, 0)), Milli(12)),
     y |-> blended.y + Mul(Mul(si, CosT(t, 1800, 0)), Milli(10)),
     z |-> blended.z]

\* a speaking frame that cross-fades the neck and eyebrow targets too, from
\* their previous values
GestureWriteAllBlended(a, ph, prog, new, blended, si, t) ==
    [a EXCEPT
        !.gesturePhase = ph,
        !.gestureTransitionProgress = prog,
        !.newTargetHeadRotation = new.head,
        !.blendedHeadRotation = blended,
        !.targetHeadRotation = MicroMovements(blended, si, t),
        !.targetNeckRotation =
            Blend(a.targetNeckRotation, new.neck, easeInOutQuad(prog)),
        !.targetEyebrowIntensity =
            a.targetEyebrowIntensity
            + Mul(new.eyebrow - a.targetEyebrowIntensity, easeInOutQuad(prog))]

\* the targets of a speaking frame, given the blended head rotation
GestureWrite(a, ph, prog, new, blended, si, t) ==
    [a EXCEPT
        !.gesturePhase = ph,
        !.gestureTransitionProgress = prog,
        !.newTargetHeadRotation = new.head,
        !.blendedHeadRotation = blended,
        !.targetHeadRotation = MicroMovements(blended, si, t),
        !.targetNeckRotation = new.neck,
        !.targetEyebrowIntensity = new.eyebrow]

\* a cross-fade that starts from the smoothed head rotation instead of the
\* snapshot of the head target
GestureBlendFromCurrent(a, ph, prog, new, si, t) ==
    GestureWrite(a, ph, prog, new,
                 Blend(a.headRotation, new.head, easeInOutQuad(prog)),
                 si, t)

\* the cross-fade from the snapshot to the targets new of the gesture, and
\* the speech-synchronised micro-movements; ph, prog: the advanced
\* gesturePhase and gestureTransitionProgress; si: speechIntensity
GestureBlend(a, ph, prog, new, si, t) ==
    GestureWrite(a, ph, prog, new,
                 Blend(a.previousHeadRotation, new.head, easeInOutQuad(prog)),
                 si, t)

\* the phase and the progress advance, then the targets are computed
GestureAdvance(a, ph, t, dts) ==
    GestureBlend(a, ph, GestureProgress(a.gestureTransitionProgress, dts),
                 GestureTargets(a.currentGesture, ph, t), a.speechIntensity, t)

\* the speaking branch: gesture selection, cross-fade and micro-movements
SpeakingHead(a, t, dts, rnd) ==
    LET a1 == GestureSelect(a, t, rnd)
    IN  GestureAdvance(a1, a1.gesturePhase + dts, t, dts)

\* the smoothing of head, neck and eyebrows toward the targets of a1, and
\* the second write of 'surprised' while speaking with a neutral mood;
\* head: the rig has a head bone
HeadSmooth(a, a1, head) ==
    LET eyebrow == smoothLerp(a.eyebrowIntensity, a1.targetEyebrowIntensity,
                              Milli(80), a.deltaTime)
    IN  [a1 EXCEPT
            !.headRotation =
                IF head
                THEN [k \in DOMAIN Origin |->
                         smoothLerp(a.headRotation[k], a1.targetHeadRotation[k],
                                    Milli(80), a.deltaTime)]
                ELSE @,
            !.neckRotation =
                [k \in DOMAIN Origin |->
                    smoothLerp(a.neckRotation[k], a1.targetNeckRotation[k],
                               Milli(60), a.deltaTime)],
            !.eyebrowIntensity = eyebrow,
            !.applied =
                IF a.isSpeaking /\ a.currentExpression = "neutral"
                THEN [@ EXCEPT !["surprised"] = Mul(eyebrow, Milli(150))]
                ELSE @]

\* head, neck and eyebrows: the targets of the branch under 'if (head)',
\* then the smoothing
HeadStep(a, t, dts, rnd, head) ==
    HeadSmooth(a,
               IF ~head THEN a
               ELSE IF a.isSpeaking THEN SpeakingHead(a, t, dts, rnd)
               ELSE IdleHead(a, t),
               head)

\* the points of the body of animate() at which a frame may throw: nowhere;
\* analyser.getByteFrequencyData, inside the try block; vrm.update, the
\* first write to the rig; renderer.render, after the body
ThrowPoints == {"none", "read", "update", "render"}

\* the body of animate() under 'if (vrm)' and the render call; dt: ticks
\* since the last frame; throws: the point at which the frame throws;
\* rnd: the values Math.random() returns; head: the rig has a head bone
animate(a, analyser, dataArray, throws, dt, rnd, head) ==
    LET deltaTime == IF a.clockRunning THEN dt ELSE 0
        a0 == [a EXCEPT !.clockRunning = TRUE,
                        !.deltaTime = deltaTime,
                        !.elapsed = @ + deltaTime,
                        !.frameCount = @ + 1,
                        !.gestureSelected = FALSE,
                        !.moodSelected = FALSE,
                        !.bodyThrew = throws \in {"update", "render"},
                        !.thrownFrames =
                            IF throws \in {"update", "render"} THEN @ + 1
                            ELSE @]
        t   == Seconds(a0.elapsed)
        dts == Seconds(deltaTime)
        a1  == SpeechIntensityStep(
                   AudioAnalysis(a0, analyser, dataArray, throws = "read"))
        a2  == MouthStep(BlinkStep(ExpressionStep(a1, t, dts, rnd), t, rnd))
        a3  == HeadStep(ExpressionValuesStep(a2), t, dts, rnd, head)
    IN  IF throws = "update" THEN a0 ELSE BodyStep(a3)

\* ------------------------------------------- the effect: acquire, release

\* effect instances: one per run of the useEffect body
MaxInst == 2

Instances == 1..MaxInst

\* a closure no run of the effect has created yet; head: the rig of the
\* asset the instance loads has a head bone
EffUnused ==
    [ phase           |-> "unused",
      hasTrack        |-> FALSE,
      load            |-> "idle",
      vrm             |-> FALSE,
      audioContext    |-> "null",
      analyser        |-> FALSE,
      dataArrayLength |-> 0,
      audioSource     |-> "null",
      raf             |-> FALSE,
      surface         |-> "none",
      log             |-> << >>,
      threw           |-> FALSE,
      lateFrames      |-> 0,
      skippedFrame    |-> FALSE,
      head            |-> TRUE ]

\* the useEffect body: renderer and surface, closure variables,
\* loader.load(...), the first animate() call; hasTrack: whether
\* audioTrack?.publication.track is set
EffectBody(hasTrack) ==
    [EffUnused EXCEPT
        !.phase = "live",
        !.hasTrack = hasTrack,
        !.load = "pending",
        !.raf = TRUE,
        !.surface = "attached"]

\* the release calls of the cleanup with the renderer released first
CleanupCallsRendererFirst(e) ==
    << "removeEventListener", "controls.dispose", "renderer.dispose",
       "removeChild" >>
    \o (IF e.audioContext # "null" THEN << "audioContext.close" >> ELSE << >>)
    \o (IF e.audioSource # "null" THEN << "audioSource.disconnect" >> ELSE << >>)
    \o (IF e.vrm THEN << "deepDispose" >> ELSE << >>)
    \o << "scene.dispose" >>

\* the release calls the cleanup makes, in the order it makes them
CleanupCalls(e) ==
    << "removeEventListener", "controls.dispose" >>
    \o (IF e.audioSource # "null" THEN << "audioSource.disconnect" >> ELSE << >>)
    \o (IF e.audioContext # "null" THEN << "audioContext.close" >> ELSE << >>)
    \o (IF e.vrm THEN << "deepDispose" >> ELSE << >>)
    \o << "scene.dispose", "renderer.dispose", "removeChild" >>

\* the cleanup the effect returns; container.removeChild throws
\* NotFoundError when renderer.domElement is no longer a child
Cleanup(e) ==
    [e EXCEPT
        !.phase = "tornDown",
        !.log = @ \o CleanupCalls(e),
        !.audioSource = IF @ = "null" THEN "null" ELSE "disconnected",
        !.audioContext = IF @ = "null" THEN "null" ELSE "closed",
        !.surface = "removed",
        !.threw = @ \/ e.surface # "attached"]

\* the points at which the audio setup can throw (0: it does not)
AudioFailPoints == 0..5

\* the try block of the load callback: 1 new MediaStream, 2 new
\* AudioContext, 3 createAnalyser, 4 createMediaStreamSource, 5 connect
AudioSetup(e, failAt) ==
    IF ~e.hasTrack \/ failAt \in {1, 2} THEN e
    ELSE IF failAt = 3 THEN [e EXCEPT !.audioContext = "running"]
    ELSE [e EXCEPT
            !.audioContext = "running",
            !.analyser = TRUE,
            !.dataArrayLength = BinCount,
            !.audioSource =
                CASE failAt = 4 -> "null"
                  [] failAt = 5 -> "disconnected"
                  [] OTHER -> "connected"]

\* the onLoad callback of loader.load; valid: gltf.userData.vrm is set
OnLoad(e, valid, failAt) ==
    IF ~valid THEN [e EXCEPT !.load = "done"]
    ELSE AudioSetup([e EXCEPT !.load = "done", !.vrm = TRUE], failAt)

\* setError(..); setLoading(false): React drops updates once unmounted
SetStatus(u, error) ==
    IF u.mounted THEN [u EXCEPT !.loading = FALSE, !.error = error] ELSE u

\* ----------------------------------------------------------------- inputs

\* animate() executions of one behaviour of the frame specification
MaxFrames == 3

\* animate() executions of one behaviour of the lifecycle specification
MaxLifeFrames == 1

\* the longest frame, in ticks
MaxDt == 2

\* smoothLerp applications of one behaviour
MaxLerpSteps == 3

FrameTicks == 1..MaxDt

\* the input scripts: spectra fed one per frame
Script(name) ==
    CASE name = "e2e" ->
            << "v0", "v0", "v30", "v30", "v30", "v20", "v16", "v10" >>
      [] name = "short" -> << "v30", "v16", "v10" >>
      [] name = "oscSpeaking" ->
            << "v30", "v18", "v22", "v18", "v22", "v18", "v22" >>
      [] name = "oscSilent" -> << "v18", "v22", "v18", "v22", "v18", "v22" >>
      [] OTHER -> << >>

ScriptNames == {"e2e", "short", "oscSpeaking", "oscSilent"}

\* the outcomes of the audio setup in the lifecycle specification: it
\* succeeds, or createMediaStreamSource throws
LifeFailPoints == {0, 4}

\* the spectrum the frames of the lifecycle specification read
LifeSpectra == {"v30"}

\* the spectra a free frame of the frame specification draws from
FreeSpectra == {"v0", "v16", "v25", "v30", "full"}

\* animate() executions of one behaviour of the conversation specification
MaxTalkFrames == 3

\* the frames of a conversation: a display-rate frame and a stall of 3 s
TalkTicks == {1, 180}

\* the spectra of a conversation: silence and speech
TalkSpectra == {"v0", "v30"}

\* Math.random() returning g for the gesture, m for the mood and r elsewhere
Draws(g, m, r) ==
    [gesture |-> g, gestureTime |-> r, mood |-> m, moodIntensity |-> r,
     moodTime |-> r, blink |-> r]

\* the values of Math.random() in a conversation: the ends of [0, 1) and
\* a value between
TalkRandoms ==
    {NoRandom,
     Draws(Milli(300), Milli(300), Milli(500)),
     Draws(Scale - 1, Scale - 1, Scale - 1)}

\* the frames of the blink specification: half a second, and 1.85 s, which
\* from elapsedTime 0 lands inside the first blink pulse
FaceTicks == {30, 111}

\* the spectra of the blink specification: silence and full scale
FaceSpectra == {"v0", "full"}

\* the values of Math.random() of the blink specification: the least and
\* the greatest
FaceRandoms == {NoRandom, Draws(Scale - 1, Scale - 1, Scale - 1)}

\* the frames of the idle-fallback specification: a display-rate frame, and
\* the frames that last two half-lives of the rates 0.25 and 0.1
HushTicks == {1, 5, 14}

\* the channel values and factors smoothLerp is tried on
LerpValues == {-Milli(1200), -Milli(200), -1, 0, 1, Milli(333), Scale}

LerpFactors ==
    {1, Milli(60), Milli(80), Milli(100), Milli(150), Milli(250), Milli(500),
     Scale - 1}

LerpIdle ==
    [current |-> 0, previous |-> 0, start |-> 0, target |-> 0,
     factor |-> Milli(100), deltaTime |-> 0, ticks |-> 0, steps |-> 0]

\* the channels smoothLerp is tried on: start is the value before the first
\* application, ticks the frame time applied so far
LerpChannels ==
    {[current |-> c, previous |-> 0, start |-> c, target |-> t, factor |-> f,
      deltaTime |-> 0, ticks |-> 0, steps |-> 0] :
        c \in LerpValues, t \in LerpValues, f \in LerpFactors}

\* five simulated seconds, in ticks
SettleTicks == 5 * 60

\* the frame lengths of a settling run: a repeated frame, a display-rate
\* frame, a stall of half the period and of all of it
SettleFrameTicks == {0, 1, SettleTicks \div 2, SettleTicks}

\* the channels of a settling run: the widest distances of a channel from
\* its target; the smallest and the largest rate animate() passes and the
\* ends of (0,1)
SettleChannels ==
    {ch \in LerpChannels :
        /\ ch.start \in {-Milli(1200), Scale}
        /\ ch.target \in {-Milli(1200), 0, Scale}
        /\ ch.factor \in {1, Milli(60), Milli(250), Scale - 1}}

\* ---------------------------------------------------------------- actions

\* requestAnimationFrame(animate) scheduled only once the frame is through
RescheduledAtEnd(throws) == throws \notin {"update", "render"}

\* requestAnimationFrame(animate) is the first statement of animate(): the
\* next frame is requested whether or not the rest of the frame throws
Rescheduled(throws) == TRUE

\* the analyser receives signal: its source is connected, its context runs
Audible(e) ==
    e.analyser /\ e.audioSource = "connected" /\ e.audioContext = "running"

\* what getByteFrequencyData leaves in dataArray
DataArray(e, id) ==
    IF e.dataArrayLength = 0 THEN << >> ELSE SpectrumTable[id]

\* a callback that runs the body of animate() without looking at vrm
FrameWithoutRigTest(i, ids, throwSet, ticks, randoms, maxFrames) ==
    /\ eff[i].raf
    /\ frames < maxFrames
    /\ \E id \in (IF Audible(eff[i]) THEN ids ELSE {"v0"}),
          throws \in (IF eff[i].analyser THEN throwSet
                      ELSE IF eff[i].vrm THEN throwSet \ {"read"}
                      ELSE throwSet \ {"read", "update"}),
          dt \in ticks,
          rnd \in randoms :
            /\ anim' = [anim EXCEPT ![i] =
                          animate(@, eff[i].analyser,
                                  DataArray(eff[i], id), throws, dt, rnd,
                                  eff[i].head)]
            /\ eff' = [eff EXCEPT
                          ![i].raf = Rescheduled(throws),
                          ![i].lateFrames =
                              IF eff[i].phase = "tornDown" THEN @ + 1 ELSE @,
                          ![i].skippedFrame =
                              @ \/ (eff[i].load = "done" /\ ~eff[i].vrm)]
    /\ frames' = frames + 1
    /\ UNCHANGED <<ui, active, plan, lerp>>

\* a requestAnimationFrame callback of instance i: animate() reschedules
\* itself, animates when the rig is attached, and renders
Frame(i, ids, throwSet, ticks, randoms, maxFrames) ==
    /\ eff[i].raf
    /\ frames < maxFrames
    /\ \E id \in (IF Audible(eff[i]) THEN ids ELSE {"v0"}),
          throws \in (IF eff[i].analyser THEN throwSet
                      ELSE IF eff[i].vrm THEN throwSet \ {"read"}
                      ELSE throwSet \ {"read", "update"}),
          dt \in ticks,
          rnd \in randoms :
            /\ anim' = [anim EXCEPT ![i] =
                          IF eff[i].vrm
                          THEN animate(@, eff[i].analyser,
                                       DataArray(eff[i], id), throws, dt, rnd,
                                       eff[i].head)
                          ELSE @]
            /\ eff' = [eff EXCEPT
                          ![i].raf = Rescheduled(throws),
                          ![i].lateFrames =
                              IF eff[i].phase = "tornDown" THEN @ + 1 ELSE @,
                          ![i].skippedFrame =
                              @ \/ (eff[i].load = "done" /\ ~eff[i].vrm)]
    /\ frames' = frames + 1
    /\ UNCHANGED <<ui, active, plan, lerp>>

\* a frame of instance 1 fed the next spectrum of the script
ScriptFrame ==
    /\ plan.name \in ScriptNames
    /\ plan.pos < Len(Script(plan.name))
    /\ eff[1].raf /\ eff[1].vrm /\ Audible(eff[1])
    /\ \E dt \in FrameTicks :
          anim' = [anim EXCEPT ![1] =
                      animate(@, TRUE,
                              SpectrumTable[Script(plan.name)[plan.pos + 1]],
                              "none", dt, NoRandom, eff[1].head)]
    /\ plan' = [plan EXCEPT !.pos = @ + 1]
    /\ UNCHANGED <<ui, active, eff, frames, lerp>>

\* an onLoad whose audio setup is not caught: its failure is reported as
\* the failure of the load
LoadSuccessAudioFatal(i, failPoints) ==
    /\ eff[i].load = "pending"
    /\ \E valid \in BOOLEAN,
          failAt \in (IF eff[i].hasTrack THEN failPoints ELSE {0}) :
            /\ eff' = [eff EXCEPT ![i] = OnLoad(@, valid, failAt)]
            /\ ui' = SetStatus(ui, IF valid /\ failAt = 0 THEN "null"
                                   ELSE "Invalid VRM model")
    /\ UNCHANGED <<active, anim, frames, plan, lerp>>

\* loader.load calls onLoad
LoadSuccess(i, failPoints) ==
    /\ eff[i].load = "pending"
    /\ \E valid \in BOOLEAN,
          failAt \in (IF eff[i].hasTrack THEN failPoints ELSE {0}) :
            /\ eff' = [eff EXCEPT ![i] = OnLoad(@, valid, failAt)]
            /\ ui' = SetStatus(ui, IF valid THEN "null" ELSE "Invalid VRM model")
    /\ UNCHANGED <<active, anim, frames, plan, lerp>>

\* an onError that only ends the loading state
LoadErrorUnreported(i) ==
    /\ eff[i].load = "pending"
    /\ eff' = [eff EXCEPT ![i].load = "done"]
    /\ ui' = SetStatus(ui, ui.error)
    /\ UNCHANGED <<active, anim, frames, plan, lerp>>

\* loader.load calls onError; the message is err.message, or the default
\* when err is not an Error
LoadError(i) ==
    /\ eff[i].load = "pending"
    /\ eff' = [eff EXCEPT ![i].load = "done"]
    /\ ui' = SetStatus(ui, "Failed to load VRM model")
    /\ UNCHANGED <<active, anim, frames, plan, lerp>>

\* modelPath or audioTrack changes: React runs the cleanup of the live
\* instance, then the effect body again
PropsChange ==
    /\ ui.mounted
    /\ active \in Instances /\ active < MaxInst
    /\ \E hasTrack \in BOOLEAN :
          eff' = [eff EXCEPT ![active] = Cleanup(@),
                             ![active + 1] = EffectBody(hasTrack)]
    /\ active' = active + 1
    /\ UNCHANGED <<ui, anim, frames, plan, lerp>>

\* the avatar is hidden or the host unmounts: React runs the cleanup
Unmount ==
    /\ ui.mounted
    /\ active \in Instances
    /\ eff' = [eff EXCEPT ![active] = Cleanup(@)]
    /\ ui' = [ui EXCEPT !.mounted = FALSE]
    /\ active' = 0
    /\ UNCHANGED <<anim, frames, plan, lerp>>

\* how many times the cleanup of a closure has run
CleanupRuns(e) ==
    Cardinality({k \in DOMAIN e.log : e.log[k] = "removeChild"})

\* the cleanup of a torn-down instance is called a second time
CleanupAgain(i) ==
    /\ eff[i].phase = "tornDown"
    /\ CleanupRuns(eff[i]) = 1
    /\ eff' = [eff EXCEPT ![i] = Cleanup(@)]
    /\ UNCHANGED <<ui, active, anim, frames, plan, lerp>>

\* one application of smoothLerp to the channel
LerpStep ==
    /\ lerp.steps < MaxLerpSteps
    /\ \E dt \in 0..MaxDt :
          lerp' = [lerp EXCEPT
                      !.previous = lerp.current,
                      !.current = smoothLerp(lerp.current, lerp.target,
                                             lerp.factor, dt),
                      !.deltaTime = dt,
                      !.ticks = @ + dt,
                      !.steps = @ + 1]
    /\ UNCHANGED <<ui, active, eff, anim, frames, plan>>

\* one application of smoothLerp of a run that lasts five seconds
SettleStep ==
    /\ lerp.ticks < SettleTicks
    /\ \E dt \in SettleFrameTicks :
          lerp' = [lerp EXCEPT
                      !.previous = lerp.current,
                      !.current = smoothLerp(lerp.current, lerp.target,
                                             lerp.factor, dt),
                      !.deltaTime = dt,
                      !.ticks = @ + dt,
                      !.steps = Min(@ + 1, MaxLerpSteps)]
    /\ UNCHANGED <<ui, active, eff, anim, frames, plan>>

\* --------------------------------------------------------- specifications

\* the component mounted and the effect body run once
InitMounted ==
    /\ ui = [mounted |-> TRUE, loading |-> TRUE, error |-> "null"]
    /\ active = 1
    /\ \E hasTrack \in BOOLEAN :
          eff = [i \in Instances |->
                    IF i = 1 THEN EffectBody(hasTrack) ELSE EffUnused]
    /\ anim = [i \in Instances |-> AnimInit]
    /\ frames = 0

Init ==
    /\ InitMounted
    /\ plan = [name |-> "free", pos |-> 0]
    /\ lerp = LerpIdle

Next ==
    \/ PropsChange
    \/ Unmount
    \/ \E i \in Instances : LoadSuccess(i, LifeFailPoints)
    \/ \E i \in Instances : LoadError(i)
    \/ \E i \in Instances : Frame(i, LifeSpectra, {"none"}, {1}, {NoRandom}, MaxLifeFrames)

\* the life of the component: acquisition, frames, teardown
Spec == Init /\ [][Next]_vars

NextTwice ==
    \/ Next
    \/ \E i \in Instances : CleanupAgain(i)

\* the same, with the cleanup of an instance allowed to run a second time
SpecTwice == Init /\ [][NextTwice]_vars

InitFrame ==
    /\ InitMounted
    /\ plan \in [name : ScriptNames \cup {"free"}, pos : {0}]
    /\ lerp = LerpIdle

NextFrame ==
    \/ LoadSuccess(1, AudioFailPoints)
    \/ LoadError(1)
    \/ (plan.name = "free" /\ Frame(1, FreeSpectra, {"none", "read"}, FrameTicks, {NoRandom},
                    MaxFrames))
    \/ ScriptFrame

\* the frames of one instance that is never torn down
SpecFrame == InitFrame /\ [][NextFrame]_vars

NextLoop ==
    \/ LoadSuccess(1, {0})
    \/ LoadError(1)
    \/ Frame(1, LifeSpectra, ThrowPoints, {1}, {NoRandom}, MaxFrames)

\* the frame loop of one instance whose frames may throw
SpecLoop == InitFrame /\ [][NextLoop]_vars

NextTalk ==
    \/ LoadSuccess(1, {0})
    \/ Frame(1, TalkSpectra, {"none"}, TalkTicks, TalkRandoms, MaxTalkFrames)

\* a conversation: seconds of speech and silence, with and without a track
SpecTalk == Init /\ [][NextTalk]_vars

NextFace ==
    \/ LoadSuccess(1, {0})
    \/ Frame(1, FaceSpectra, {"none"}, FaceTicks, FaceRandoms, MaxTalkFrames)

\* silent and loud frames of one instance around its blink pulses
SpecFace == Init /\ [][NextFace]_vars

NextHush ==
    \/ LoadSuccess(1, {0})
    \/ Frame(1, FaceSpectra, {"none"}, HushTicks, FaceRandoms, MaxTalkFrames)

\* loud frames followed by silent frames of up to two half-lives
SpecHush == Init /\ [][NextHush]_vars

\* the component mounted with an asset whose rig may lack the head bone
InitRig ==
    /\ ui = [mounted |-> TRUE, loading |-> TRUE, error |-> "null"]
    /\ active = 1
    /\ \E hasTrack \in BOOLEAN, head \in BOOLEAN :
          eff = [i \in Instances |->
                    IF i = 1
                    THEN [EffectBody(hasTrack) EXCEPT !.head = head]
                    ELSE EffUnused]
    /\ anim = [i \in Instances |-> AnimInit]
    /\ frames = 0
    /\ plan = [name |-> "free", pos |-> 0]
    /\ lerp = LerpIdle

NextRig ==
    \/ LoadSuccess(1, {0})
    \/ Frame(1, TalkSpectra, {"none"}, TalkTicks, {NoRandom}, MaxTalkFrames)

\* the frames of an instance whose rig has or lacks the head bone
SpecRig == InitRig /\ [][NextRig]_vars

InitLerp ==
    /\ InitMounted
    /\ plan = [name |-> "free", pos |-> 0]
    /\ lerp \in LerpChannels

\* smoothLerp applied repeatedly toward a constant target
SpecLerp == InitLerp /\ [][LerpStep]_vars

InitSettle ==
    /\ InitMounted
    /\ plan = [name |-> "free", pos |-> 0]
    /\ lerp \in SettleChannels

\* smoothLerp applied toward a constant target for five seconds
SpecSettle == InitSettle /\ [][SettleStep]_vars

\* ------------------------------------------------------------ properties

TornDown(i) == eff[i].phase = "tornDown"

\* instance i has executed the body of animate() in this step
Animated(i) == anim'[i].frameCount = anim[i].frameCount + 1

\* C1: once the cleanup of an instance has run, its animate() is neither
\* scheduled nor executed again.
C1_NoFrameAfterTeardown ==
    \A i \in Instances :
        TornDown(i) => ~eff[i].raf /\ eff[i].lateFrames = 0

ExpectedSpeaking(name) ==
    CASE name = "e2e" ->
            << FALSE, FALSE, TRUE, TRUE, TRUE, TRUE, TRUE, FALSE >>
      [] name = "short" -> << TRUE, TRUE, FALSE >>

ReleaseOrder ==
    << "audioSource.disconnect", "audioContext.close", "deepDispose",
       "renderer.dispose", "removeChild" >>

\* every x of the log comes before every y
Before(log, x, y) ==
    \A j, k \in DOMAIN log : log[j] = x /\ log[k] = y => j < k

Logged(log, x) == \E k \in DOMAIN log : log[k] = x

\* C4: the cleanup disconnects the audio source before it closes the audio
\* context, closes the context before it disposes the rig, and disposes the
\* rig before it disposes the renderer and removes its surface.
C4_TeardownOrder ==
    \A i \in Instances :
        /\ \A p, q \in DOMAIN ReleaseOrder :
              p < q => Before(eff[i].log, ReleaseOrder[p], ReleaseOrder[q])
        /\ TornDown(i) => /\ Logged(eff[i].log, "renderer.dispose")
                          /\ Logged(eff[i].log, "removeChild")

\* ... an instance with a rig and an audio pipeline has been torn down
C4_Witness ==
    \E i \in Instances :
        /\ TornDown(i)
        /\ \A p \in DOMAIN ReleaseOrder : Logged(eff[i].log, ReleaseOrder[p])

\* C5: a load that completes after the cleanup attaches no rig, creates no
\* audio context, analyser or source node and leaves the displayed status
\* alone; no audio node is live after teardown.
C5_TerminalAfterTeardown ==
    /\ [][\A i \in Instances :
            TornDown(i) /\ eff[i].load = "pending" /\ eff'[i].load = "done"
                => /\ eff'[i].vrm = eff[i].vrm
                   /\ eff'[i].audioContext = eff[i].audioContext
                   /\ eff'[i].analyser = eff[i].analyser
                   /\ eff'[i].audioSource = eff[i].audioSource
                   /\ ui' = ui]_vars
    /\ [](\A i \in Instances :
            TornDown(i) => /\ eff[i].audioContext # "running"
                           /\ eff[i].audioSource # "connected")

\* C6: a second run of the cleanup raises no error and leaves no audio
\* source connected and no audio context open.
C6_TeardownIdempotent ==
    \A i \in Instances :
        CleanupRuns(eff[i]) >= 2 =>
            /\ ~eff[i].threw
            /\ eff[i].audioSource # "connected"
            /\ eff[i].audioContext # "running"

\* C7: in a frame whose spectrum read throws, isSpeaking, the volume, the
\* three bands and the target intensity keep their values of the previous
\* frame, and the lip-shape targets are those of the previous frame's bands.
C7_ReadFailureKeepsSpeechState ==
    [][\A i \in Instances :
        Animated(i) /\ anim'[i].readThrew =>
            /\ anim'[i].isSpeaking = anim[i].isSpeaking
            /\ anim'[i].audioVolume = anim[i].audioVolume
            /\ anim'[i].lowFreq = anim[i].lowFreq
            /\ anim'[i].midFreq = anim[i].midFreq
            /\ anim'[i].highFreq = anim[i].highFreq
            /\ anim'[i].targetSpeechIntensity = anim[i].targetSpeechIntensity
            /\ anim'[i].targetMouthShapes = MouthTargets(anim[i])]_vars

InUnit(x) == 0 <= x /\ x <= Scale

\* C8: for every spectrum of bytes the volume and the three band energies
\* lie in [0, 1].
C8_BandsInUnitInterval ==
    \A i \in Instances :
        /\ InUnit(anim[i].audioVolume)
        /\ InUnit(anim[i].lowFreq)
        /\ InUnit(anim[i].midFreq)
        /\ InUnit(anim[i].highFreq)

\* the factors of the Body Animator's smoothing steps
BodyRates == {Milli(80), Milli(100)}

\* new is what a smoothing step of the channel makes of old
IsSmoothingStep(old, new, target, deltaTime) ==
    \E factor \in BodyRates : new = smoothLerp(old, target, factor, deltaTime)

\* C9: every value the Body Animator writes to a bone in a frame is the
\* result of the smoothing step of its channel, never the raw target.
C9_BodyWritesSmoothed ==
    [][\A i \in Instances :
        Animated(i) =>
            /\ \A c \in BodyChannels :
                  IsSmoothingStep(anim[i].bone[c], anim'[i].bone[c],
                                  anim'[i].target[c], anim'[i].deltaTime)
            /\ \A f \in FingerBones :
                  IsSmoothingStep(anim[i].finger[f], anim'[i].finger[f],
                                  anim'[i].fingerTarget[f],
                                  anim'[i].deltaTime)]_vars

\* x lies in the closed interval between a and b
Between(a, x, b) == (a <= x /\ x <= b) \/ (b <= x /\ x <= a)

\* C10: the result of smoothLerp lies between current and target, equals
\* current when deltaTime is 0, and is never farther from the target than
\* current was.
C10_NoOvershoot ==
    lerp.steps >= 1 =>
        /\ Between(lerp.previous, lerp.current, lerp.target)
        /\ lerp.deltaTime = 0 => lerp.current = lerp.previous
        /\ Abs(lerp.target - lerp.current) <= Abs(lerp.target - lerp.previous)

\* ... a step of positive length has moved the channel part of the way
C10_Witness ==
    /\ lerp.steps >= 2
    /\ lerp.deltaTime > 0
    /\ lerp.current # lerp.previous
    /\ lerp.current # lerp.target

\* the channel has been smoothed for five seconds and is where C11 wants it
Settled ==
    /\ Abs(lerp.target - lerp.current) <= Milli(1)
    /\ Between(lerp.start, lerp.current, lerp.target)

\* C11 as stated: for any rate in (0,1), after frames that sum to at least
\* five seconds the channel is within 1e-3 of its constant target and not
\* beyond it
C11_SettlesAtAnyRate ==
    lerp.ticks >= SettleTicks => Settled

\* C11 amended: the same for every rate of at least 0.06, the smallest rate
\* animate() passes, and a channel that starts at most 2.2 from its target
C11_SettlesAtCodeRates ==
    (lerp.ticks >= SettleTicks /\ lerp.factor >= Milli(60)) => Settled

\* a channel at rate 0.06 that started away from its target has been
\* smoothed for five seconds in more than one frame
C11_Witness ==
    /\ lerp.ticks >= SettleTicks
    /\ lerp.factor = Milli(60)
    /\ lerp.start # lerp.target
    /\ lerp.steps >= 2
    /\ lerp.deltaTime < SettleTicks

\* the rounding of the arithmetic over the frames of a run, in units of the
\* last digit: one unit per multiplication of Pow and of smoothLerp, scaled
\* by the widest distance of a channel from its target
RoundingSlack == 4 * (MaxLerpSteps * MaxDt + 2)

\* the value of the channel had all the frame time been one frame
OneFrame == smoothLerp(lerp.start, lerp.target, lerp.factor, lerp.ticks)

\* C12 as stated: advancing by d1 and then by d2 gives the same value as
\* advancing once by d1 + d2
C12_SameValue ==
    lerp.steps = 2 => lerp.current = OneFrame

\* C12 amended: advancing by d1 and then by d2 gives the value of advancing
\* once by d1 + d2 up to the rounding of the arithmetic
C12_SameValueUpToRounding ==
    lerp.steps = 2 => Abs(lerp.current - OneFrame) <= RoundingSlack

\* two frames of one tick have been applied to a channel away from its
\* target, and the channel has moved
C12_Witness ==
    /\ lerp.steps = 2
    /\ lerp.ticks = 2
    /\ lerp.deltaTime = 1
    /\ lerp.current # lerp.start

\* the values of the audio analysis of a frame that heard nothing
Silent(a) ==
    /\ ~a.isSpeaking
    /\ a.audioVolume = 0
    /\ a.lowFreq = 0 /\ a.midFreq = 0 /\ a.highFreq = 0
    /\ a.targetSpeechIntensity = 0

\* C13: an instance without an analyser is silent in every frame: isSpeaking
\* is false, volume, bands and target intensity are 0, and the smoothed
\* intensity never increases and is 0
C13_NoSourceSilent ==
    /\ [](\A i \in Instances :
            ~eff[i].analyser =>
                (Silent(anim[i]) /\ anim[i].speechIntensity = 0))
    /\ [][\A i \in Instances :
            ~eff'[i].analyser =>
                anim'[i].speechIntensity <= anim[i].speechIntensity]_vars

\* an instance without an audio track has animated for seconds
C13_Witness ==
    /\ eff[1].vrm /\ ~eff[1].analyser /\ ~eff[1].hasTrack
    /\ anim[1].frameCount >= 3
    /\ anim[1].elapsed >= 180

\* the audio setup of the load callback threw
SetupFailed(e) == e.hasTrack /\ e.vrm /\ e.audioSource # "connected"

\* C14: when the audio setup fails at any of its points, the status is Ready
\* (not loading, no error) and every frame is silent: isSpeaking false,
\* volume and bands 0
C14_AudioSetupFailureDegrades ==
    SetupFailed(eff[1]) =>
        /\ ui.error = "null" /\ ~ui.loading
        /\ Silent(anim[1])

\* the setup failed after the analyser was created, and frames have run;
\* the last one with a read that threw
C14_Witness ==
    /\ SetupFailed(eff[1]) /\ eff[1].analyser
    /\ anim[1].frameCount >= 2
    /\ anim[1].readThrew

\* the load of instance i has ended without a rig
LoadFailed(e) == e.load = "done" /\ ~e.vrm

\* C15: when the load fails or yields no rig the status becomes Error with a
\* message, and no frame of that instance animates: its animation state stays
\* as created
C15_LoadFailureNoAnimation ==
    /\ [](\A i \in Instances : ~eff[i].vrm => anim[i] = AnimInit)
    /\ [][\A i \in Instances :
            (~LoadFailed(eff[i]) /\ LoadFailed(eff'[i]) /\ ui.mounted) =>
                (ui'.error # "null" /\ ~ui'.loading)]_vars

\* a frame of an instance has run after its load had failed, the error shown
C15_Witness ==
    \E i \in Instances :
        /\ LoadFailed(eff[i]) /\ eff[i].skippedFrame
        /\ ui.error # "null" /\ ~ui.loading

\* C16: once the displayed status is Error no later event moves it to
\* Loading or Ready
C16_ErrorTerminal ==
    [][(ui.mounted /\ ui.error # "null") =>
          (ui'.error # "null" /\ ~ui'.loading)]_vars

\* instance i has run a frame in this step that threw: past the catch of
\* the audio read, or out of animate()
ThrewInFrame(i) ==
    \/ anim'[i].thrownFrames > anim[i].thrownFrames
    \/ (Animated(i) /\ anim'[i].readThrew)

Now(i) == Seconds(anim'[i].elapsed)

\* C18: currentGesture changes to a selected value only in a frame that is
\* speaking with elapsedTime >= nextGestureTime, and after every silent
\* frame currentGesture is 0
C18_GestureOnlyWhileSpeaking ==
    /\ [](\A i \in Instances :
            ~anim[i].isSpeaking => anim[i].currentGesture = 0)
    /\ [][\A i \in Instances :
            (\/ anim'[i].currentGesture \notin {anim[i].currentGesture, 0}
             \/ (Animated(i) /\ anim'[i].gestureSelected)) =>
                (/\ Animated(i)
                 /\ anim'[i].isSpeaking
                 /\ Now(i) >= anim[i].nextGestureTime)]_vars

\* a gesture other than 0 has been selected in a frame after the first
C18_Witness ==
    /\ anim[1].isSpeaking /\ anim[1].gestureSelected
    /\ anim[1].currentGesture # 0
    /\ anim[1].frameCount >= 2

\* the frame of the step has selected a gesture as C19 describes
GestureSelection(i) ==
    /\ anim'[i].gestureSelected
    /\ anim'[i].previousHeadRotation = anim[i].targetHeadRotation
    /\ anim'[i].currentGesture \in 0..6
    /\ anim'[i].nextGestureTime >= Now(i) + Milli(2000)
    /\ anim'[i].nextGestureTime <= Now(i) + Milli(4000)
    /\ anim'[i].gesturePhase = Seconds(anim'[i].deltaTime)
    /\ anim'[i].gestureTransitionProgress =
           Min(Scale, Mul(Seconds(anim'[i].deltaTime), Milli(1500)))

\* C19: the first speaking frame after a silent frame, and every speaking
\* frame with elapsedTime >= nextGestureTime, selects a gesture: snapshot of
\* the head target, a variant in 0..6, nextGestureTime in now + 2..4 s,
\* progress and phase restarted from 0
C19_SelectionOnEntry ==
    [][\A i \in Instances :
          (/\ Animated(i)
           /\ anim'[i].isSpeaking
           /\ \/ (anim[i].frameCount >= 1 /\ ~anim[i].isSpeaking)
              \/ Now(i) >= anim[i].nextGestureTime) =>
              GestureSelection(i)]_vars

\* C20: a mood is selected only in a frame that is speaking, with
\* elapsedTime >= nextExpressionTime and the previous transition complete;
\* the mood is one of happy, surprised, thinking, relaxed, its target
\* intensity in [0.25, 0.6], nextExpressionTime in now + 2.5..5.5 s, and the
\* transition progress restarted from 0
C20_MoodSelection ==
    [][\A i \in Instances :
          (\/ (Animated(i) /\ anim'[i].moodSelected)
           \/ anim'[i].nextExpressionTime # anim[i].nextExpressionTime
           \/ anim'[i].currentExpression
                  \notin {anim[i].currentExpression, "neutral"}) =>
              (/\ Animated(i)
               /\ anim'[i].isSpeaking
               /\ Now(i) >= anim[i].nextExpressionTime
               /\ anim[i].expressionTransitionProgress >= Scale
               /\ anim'[i].currentExpression
                      \in {"happy", "surprised", "thinking", "relaxed"}
               /\ anim'[i].previousExpression = anim[i].currentExpression
               /\ anim'[i].targetExpressionIntensity >= Milli(250)
               /\ anim'[i].targetExpressionIntensity <= Milli(600)
               /\ anim'[i].nextExpressionTime >= Now(i) + Milli(2500)
               /\ anim'[i].nextExpressionTime <= Now(i) + Milli(5500)
               /\ anim'[i].expressionTransitionProgress =
                      Min(Scale, Mul(Seconds(anim'[i].deltaTime), Milli(800))))]_vars

\* a second mood has been selected, seconds after the first
C20_Witness ==
    /\ anim[1].moodSelected
    /\ anim[1].previousExpression # "neutral"
    /\ anim[1].frameCount >= 2
    /\ anim[1].elapsed >= 180

\* C21: whenever isSpeaking is false the mood is neutral with target
\* intensity 0, and a neutral mood always has target intensity 0
C21_SilenceForcesNeutral ==
    \A i \in Instances :
        /\ ~anim[i].isSpeaking =>
              (/\ anim[i].currentExpression = "neutral"
               /\ anim[i].targetExpressionIntensity = 0)
        /\ anim[i].currentExpression = "neutral" =>
              anim[i].targetExpressionIntensity = 0

\* a silent frame has just ended a mood that was selected while speaking
C21_Witness ==
    /\ anim[1].frameCount >= 2
    /\ ~anim[1].isSpeaking
    /\ anim[1].currentExpression = "neutral"
    /\ anim[1].previousExpression # "neutral"
    /\ anim[1].expressionTransitionProgress < Scale

\* C22: every weight written to the rig is within [0, 1]: the four lip
\* shapes, blink, happy, surprised (both writes), relaxed and neutral
C22_WeightsInUnitInterval ==
    \A i \in Instances :
        /\ \A k \in AppliedKeys : InUnit(anim[i].applied[k])
        /\ \A k \in AppliedKeys \ DOMAIN anim[i].mouthShapes :
              InUnit(anim[i].expressionValues[k])

\* a loud speaking frame at the peak of a blink has written the lip
\* shapes, a mood weight and the blink weight
C22_Witness ==
    /\ anim[1].isSpeaking
    /\ anim[1].audioVolume = Scale
    /\ anim[1].applied["aa"] > Milli(500)
    /\ anim[1].applied["oh"] > Milli(500)
    /\ anim[1].currentExpression = "relaxed"
    /\ anim[1].applied["relaxed"] > 0
    /\ anim[1].targetExpressionValues["blink"] = Scale
    /\ anim[1].applied["blink"] > Milli(500)

\* the least number of ticks after which smoothing at the given rate has
\* covered three quarters of the way: two half-lives, rounded up
TwoHalfLives(rate) ==
    CHOOSE n \in 1..60 :
        /\ Pow(Scale - rate, n) <= Scale \div 4
        /\ \A m \in 1..(n - 1) : Pow(Scale - rate, m) > Scale \div 4

\* the step is a silent frame of instance i that lasts at least ticks
SilentFor(i, ticks) ==
    /\ Animated(i)
    /\ ~anim'[i].isSpeaking
    /\ anim'[i].deltaTime >= ticks

\* C23: a silent frame that lasts two half-lives of the slowest speech-only
\* channel leaves the four lip shapes, the gesture variant and every finger
\* curl at their idle value 0
C23_IdleWithinTwoHalfLives ==
    [][SilentFor(1, TwoHalfLives(Milli(100))) =>
          (/\ \A k \in DOMAIN anim'[1].mouthShapes : anim'[1].mouthShapes[k] = 0
           /\ anim'[1].currentGesture = 0
           /\ \A f \in FingerBones : anim'[1].finger[f] = 0)]_vars

\* C23, as the code has it: a silent frame sets the gesture variant and the
\* targets of the lip shapes and finger curls to 0 at once; the lip shapes
\* and finger curls themselves move toward 0 without passing it, and a
\* silent frame of two half-lives of their rate leaves at most a quarter
\* (8 millionths allowed for the truncation of the fixed-point step)
C23_IdleApproachedByQuarters ==
    [][SilentFor(1, 0) =>
          (/\ anim'[1].currentGesture = 0
           /\ \A k \in DOMAIN anim'[1].mouthShapes :
                 /\ anim'[1].targetMouthShapes[k] = 0
                 /\ Between(0, anim'[1].mouthShapes[k], anim[1].mouthShapes[k])
                 /\ SilentFor(1, TwoHalfLives(Milli(250))) =>
                       4 * anim'[1].mouthShapes[k]
                           <= anim[1].mouthShapes[k] + 8
           /\ \A f \in FingerBones :
                 /\ anim'[1].fingerTarget[f] = 0
                 /\ Between(0, anim'[1].finger[f], anim[1].finger[f])
                 /\ SilentFor(1, TwoHalfLives(Milli(100))) =>
                       4 * Abs(anim'[1].finger[f])
                           <= Abs(anim[1].finger[f]) + 8)]_vars

\* a silent frame of two half-lives has followed loud speech: lip shapes
\* and finger curls are still away from 0
C23_Witness ==
    /\ ~anim[1].isSpeaking
    /\ anim[1].deltaTime = TwoHalfLives(Milli(100))
    /\ anim[1].frameCount = 3
    /\ anim[1].mouthShapes["aa"] > Milli(10)
    /\ \E f \in FingerBones : Abs(anim[1].finger[f]) > Milli(10)
    /\ anim[1].currentGesture = 0

\* the sum over the axes of the distance between two rotations
Distance(p, q) == Abs(p.x - q.x) + Abs(p.y - q.y) + Abs(p.z - q.z)

\* the values of gestureTransitionProgress on a grid of 1/20
ProgressGrid == {k * Milli(50) : k \in 0..20}

\* the step is a speaking frame of instance 1
SpeakingFrame == Animated(1) /\ anim'[1].isSpeaking

\* C24: from one speaking frame to the next of the same variant, the
\* distance between the blended head target and the raw target of the
\* variant does not increase, and the two are equal once the progress is 1
C24_DistanceNonIncreasing ==
    [][(SpeakingFrame /\ anim[1].isSpeaking /\ ~anim'[1].gestureSelected) =>
          (/\ Distance(anim'[1].blendedHeadRotation,
                       anim'[1].newTargetHeadRotation)
                 <= Distance(anim[1].blendedHeadRotation,
                             anim[1].newTargetHeadRotation)
           /\ anim'[1].gestureTransitionProgress = Scale =>
                 anim'[1].blendedHeadRotation
                     = anim'[1].newTargetHeadRotation)]_vars

\* C24, as the code has it: in every speaking frame the blended head target
\* lies, on each axis, between the snapshot and the raw target of the frame;
\* with snapshot and raw target held, its distance to the raw target does
\* not increase with the progress; it is the snapshot at progress 0 and the
\* raw target at progress 1
C24_CrossFadeMonotone ==
    [][SpeakingFrame =>
          LET prev == anim'[1].previousHeadRotation
              raw  == anim'[1].newTargetHeadRotation
              at(p) == Blend(prev, raw, easeInOutQuad(p))
          IN  /\ anim'[1].blendedHeadRotation
                     = at(anim'[1].gestureTransitionProgress)
              /\ \A k \in DOMAIN raw :
                    Between(prev[k], anim'[1].blendedHeadRotation[k], raw[k])
              /\ \A p \in ProgressGrid \cup {anim'[1].gestureTransitionProgress} :
                    \A q \in ProgressGrid :
                       p <= q => Distance(at(q), raw) <= Distance(at(p), raw)
              /\ at(0) = prev
              /\ at(Scale) = raw]_vars

\* a cross-fade under way between a snapshot and a raw target that differ
C24_Witness ==
    /\ anim[1].isSpeaking
    /\ anim[1].gestureTransitionProgress > 0
    /\ anim[1].gestureTransitionProgress < Scale
    /\ anim[1].previousHeadRotation # anim[1].newTargetHeadRotation
    /\ anim[1].blendedHeadRotation # anim[1].previousHeadRotation
    /\ anim[1].blendedHeadRotation # anim[1].newTargetHeadRotation

\* the channels of the bones other than the head: state, targets, writes
OtherBones(a) ==
    [neckRotation |-> a.neckRotation,
     targetNeckRotation |-> a.targetNeckRotation,
     bone |-> a.bone,
     target |-> a.target,
     finger |-> a.finger]

\* C25: a frame of a rig without head bone leaves the status alone and
\* gives every other bone the targets, smoothing and writes the same frame
\* gives it on a rig with the head bone
C25_MissingHeadOnlyHead ==
    [][\A id \in TalkSpectra, dt \in TalkTicks :
          (/\ Animated(1)
           /\ ~eff[1].head
           /\ anim'[1] = animate(anim[1], eff[1].analyser,
                                 DataArray(eff[1], id), "none", dt, NoRandom,
                                 FALSE)) =>
              (/\ ui' = ui
               /\ OtherBones(anim'[1])
                    = OtherBones(animate(anim[1], eff[1].analyser,
                                         DataArray(eff[1], id), "none", dt,
                                         NoRandom, TRUE)))]_vars

\* the instances whose audio context is open
OpenContexts == {i \in Instances : eff[i].audioContext = "running"}

\* C26: at most one audio context is open and only the newest instance's
\* frame loop is scheduled, in every state, a late completion of the old
\* load included
C26_SingleAudioPipeline ==
    /\ Cardinality(OpenContexts) <= 1
    /\ \A i \in Instances : eff[i].raf => i = active

\* min(2 * volume, 1) while speaking, 0 otherwise
ExpectedTargetIntensity(a) ==
    IF a.isSpeaking THEN Min(2 * a.audioVolume, Scale) ELSE 0

\* every frame so far took one tick of 1/60 s (the first frame starts the
\* clock and takes none)
AtSixtyFps(a) == a.elapsed = a.frameCount - 1

\* the end-to-end sequence at 60 fps: speechIntensity never exceeds 0.06,
\* rises in every speaking frame that takes time, and falls in every frame
\* after speech has ended
EndToEndIntensityProfile ==
    [][(plan.name = "e2e" /\ Animated(1) /\ AtSixtyFps(anim'[1])) =>
          (/\ anim'[1].speechIntensity <= Milli(60)
           /\ (anim'[1].isSpeaking /\ anim'[1].deltaTime > 0) =>
                 anim'[1].speechIntensity > anim[1].speechIntensity
           /\ (~anim'[1].isSpeaking /\ anim[1].speechIntensity > 0) =>
                 anim'[1].speechIntensity < anim[1].speechIntensity)]_vars

\* C27: after every frame targetSpeechIntensity is min(2 * volume, 1) when
\* isSpeaking and 0 otherwise, and speechIntensity is within [0, 1]; under
\* the end-to-end sequence at 60 fps speechIntensity rises during the
\* speaking run without exceeding 0.06 and decays in every frame after it
C27_TargetIntensity ==
    /\ [](\A i \in Instances :
            /\ anim[i].targetSpeechIntensity = ExpectedTargetIntensity(anim[i])
            /\ InUnit(anim[i].speechIntensity))
    /\ EndToEndIntensityProfile

\* elapsedTime of the last frame, in seconds
ElapsedTime(a) == Seconds(a.elapsed)

SilentTargetsConstant(a) ==
    /\ \A k \in DOMAIN a.targetMouthShapes : a.targetMouthShapes[k] = 0
    /\ \A k \in ExpressionKeys \ {"blink"} : a.targetExpressionValues[k] = 0
    /\ \A c \in {"leftHand.x", "leftHand.y", "leftHand.z",
                 "rightHand.x", "rightHand.y", "rightHand.z"} : a.target[c] = 0
    /\ a.target["leftLowerArm.x"] = -Milli(200)
    /\ a.target["rightLowerArm.x"] = -Milli(200)
    /\ a.target["leftUpperArm.y"] = 0 /\ a.target["rightUpperArm.y"] = 0
    /\ a.target["leftUpperArm.z"] = -Milli(1200)
    /\ a.target["rightUpperArm.z"] = Milli(1200)

\* C29 as stated: after every silent frame the targets are the idle pose,
\* the upper arms at a fixed pose with no time-varying component
C29_IdleTargetsFixed ==
    \A i \in Instances :
        (anim[i].frameCount > 0 /\ ~anim[i].isSpeaking) =>
            /\ SilentTargetsConstant(anim[i])
            /\ anim[i].target["leftUpperArm.x"] = 0
            /\ anim[i].target["rightUpperArm.x"] = 0

\* C29: after every silent frame, whatever the state before it, the four
\* lip-shape targets, the emotive-weight targets other than blink and the
\* hand targets are 0, the lower-arm targets are -0.2, the upper-arm targets
\* have y = 0 and z = -1.2 (left), 1.2 (right), and the x targets of the
\* upper arms sway in opposite phase: sin(0.65 t) * 0.012 on the left and
\* its negative on the right (to the last digit), within 0.012 of 0
C29_IdleTargets ==
    \A i \in Instances :
        (anim[i].frameCount > 0 /\ ~anim[i].isSpeaking) =>
            /\ SilentTargetsConstant(anim[i])
            /\ anim[i].target["leftUpperArm.x"] =
                  Mul(SinT(ElapsedTime(anim[i]), 650, 0), Milli(12))
            /\ Abs(anim[i].target["leftUpperArm.x"]
                   + anim[i].target["rightUpperArm.x"]) <= 1
            /\ Abs(anim[i].target["leftUpperArm.x"]) <= Milli(12)

\* a silent frame right after speech: lips and hands are still away from
\* rest while their targets are idle, and the upper-arm sway is not 0
C29_Witness ==
    /\ anim[1].frameCount > 1 /\ ~anim[1].isSpeaking
    /\ anim[1].mouthShapes.aa > 0
    /\ anim[1].bone["leftHand.x"] # 0
    /\ anim[1].target["leftUpperArm.x"] > 0
    /\ anim[1].target["rightUpperArm.x"] < 0

\* C30: a frame executed while no rig is attached, the asset loading or the
\* load failed, leaves the whole animation state of the instance (clock,
\* speech, gesture, expression, blink timer, every current and target
\* value) as it was, whether or not the render call throws; it changes
\* neither the status nor the resources, and the next frame is requested
C30_NoRigFrameSkipsAnimation ==
    [][\A i \in Instances :
          (frames' = frames + 1 /\ eff[i].raf /\ ~eff[i].vrm) =>
            /\ anim'[i] = anim[i]
            /\ ui' = ui
            /\ eff'[i].raf
            /\ eff'[i].vrm = eff[i].vrm
            /\ eff'[i].analyser = eff[i].analyser
            /\ eff'[i].audioContext = eff[i].audioContext]_vars

\* frames have run while the asset was still loading
C30_Witness ==
    /\ frames > 1
    /\ eff[1].load = "pending" /\ ~eff[1].vrm /\ eff[1].raf
    /\ anim[1].frameCount = 0 /\ ~anim[1].clockRunning

\* the status shown is Ready: neither the loading nor the error overlay
Ready(u) == u.mounted /\ ~u.loading /\ u.error = "null"

\* C31: while the component is mounted, the status is Loading whenever the
\* acquisition of the running instance is in progress, and Ready only while
\* the running instance has a rig attached
C31_StatusFollowsAcquisition ==
    /\ (ui.mounted /\ active \in Instances /\ eff[active].load = "pending")
          => ui.loading
    /\ Ready(ui) => (active \in Instances /\ eff[active].vrm)

\* the raw formula values of the variant selected after the frame, at the
\* phase and time of the frame
RawGesture(a) ==
    GestureTargets(a.currentGesture, a.gesturePhase, ElapsedTime(a))

\* C32: in every speaking frame of a rig with a head bone, the frame of a
\* variant change included, the neck and eyebrow targets are the raw
\* formula values of the current variant, whatever transitionProgress and
\* the previous variant are, while the head target before micro-movements
\* is the blend from the snapshot at easeInOutQuad(transitionProgress)
C32_OnlyHeadCrossFaded ==
    [][\A i \in Instances :
          (Animated(i) /\ anim'[i].isSpeaking /\ eff[i].head
             /\ ~anim'[i].bodyThrew) =>
            /\ anim'[i].targetNeckRotation = RawGesture(anim'[i]).neck
            /\ anim'[i].targetEyebrowIntensity = RawGesture(anim'[i]).eyebrow
            /\ anim'[i].blendedHeadRotation =
                  Blend(anim'[i].previousHeadRotation,
                        RawGesture(anim'[i]).head,
                        easeInOutQuad(anim'[i].gestureTransitionProgress))]_vars

\* a frame inside the cross-fade to a new variant: the head target is still
\* away from the raw value while neck and eyebrows are at theirs
C32_Witness ==
    /\ anim[1].isSpeaking
    /\ anim[1].currentGesture # anim[1].previousGesture
    /\ anim[1].gestureTransitionProgress < Scale
    /\ anim[1].blendedHeadRotation # anim[1].newTargetHeadRotation
    /\ anim[1].targetNeckRotation # Origin
    /\ anim[1].targetNeckRotation = RawGesture(anim[1]).neck
    /\ anim[1].targetEyebrowIntensity > 0

\* the closure state a with other current values of the rig-facing
\* channels: every one moved by 0.05, or every one at its initial value
OtherCurrents(a, how) ==
    IF how = "rest"
    THEN [a EXCEPT
            !.headRotation = AnimInit.headRotation,
            !.neckRotation = AnimInit.neckRotation,
            !.bone = AnimInit.bone,
            !.finger = AnimInit.finger,
            !.mouthShapes = AnimInit.mouthShapes,
            !.expressionValues = AnimInit.expressionValues,
            !.eyebrowIntensity = AnimInit.eyebrowIntensity]
    ELSE [a EXCEPT
            !.headRotation = [k \in DOMAIN @ |-> @[k] + Milli(50)],
            !.neckRotation = [k \in DOMAIN @ |-> @[k] + Milli(50)],
            !.bone = [c \in DOMAIN @ |-> @[c] + Milli(50)],
            !.finger = [f \in DOMAIN @ |-> @[f] + Milli(50)],
            !.mouthShapes = [k \in DOMAIN @ |-> @[k] + Milli(50)],
            !.expressionValues = [k \in DOMAIN @ |-> @[k] + Milli(50)],
            !.eyebrowIntensity = @ + Milli(50)]

\* everything of the closure state but the current values of the channels
\* and the weights written from them: targets, speech, gesture, mood, timers
BesideCurrents(a) ==
    [a EXCEPT
        !.headRotation = Origin,
        !.neckRotation = Origin,
        !.bone = [c \in DOMAIN @ |-> 0],
        !.finger = [f \in DOMAIN @ |-> 0],
        !.mouthShapes = [k \in DOMAIN @ |-> 0],
        !.expressionValues = [k \in DOMAIN @ |-> 0],
        !.eyebrowIntensity = 0,
        !.applied = [k \in DOMAIN @ |-> 0]]

\* C33: the frame just executed, run again from the same state with other
\* current values of the head, neck, body, finger, lip-shape, emotive and
\* eyebrow channels and the same spectrum, deltaTime and random choices,
\* computes the same targets for all channels and leaves the same speech,
\* gesture, mood and timer state, so that two such runs agree on the
\* targets of every later frame too
C33_TargetsIgnoreCurrents ==
    [][\A id \in FaceSpectra, dt \in FaceTicks, rnd \in FaceRandoms :
          (/\ Animated(1)
           /\ anim'[1].deltaTime \in {0, dt}
           /\ anim'[1] = animate(anim[1], eff[1].analyser,
                                 DataArray(eff[1], id), "none", dt, rnd,
                                 eff[1].head)) =>
              \A how \in {"moved", "rest"} :
                  BesideCurrents(animate(OtherCurrents(anim[1], how),
                                         eff[1].analyser,
                                         DataArray(eff[1], id), "none", dt,
                                         rnd, eff[1].head))
                    = BesideCurrents(anim'[1])]_vars

\* a speaking frame inside a cross-fade whose smoothed channels are away
\* from rest: the two reruns start from currents that differ from the
\* frame's own and from each other
C33_Witness ==
    /\ anim[1].isSpeaking /\ anim[1].frameCount >= 2
    /\ anim[1].gestureTransitionProgress < Scale
    /\ anim[1].headRotation # Origin
    /\ anim[1].mouthShapes.aa > 0
    /\ anim[1].expressionValues["happy"] > 0
    /\ anim[1].bone["leftHand.x"] # 0
    /\ anim[1].targetHeadRotation # Origin

\* const expressions and the mood of silence
Moods == {"neutral", "happy", "surprised", "thinking", "relaxed"}

\* C34: in every reachable state currentGesture and previousGesture are in
\* 0..6, gestureTransitionProgress and expressionTransitionProgress are in
\* [0, 1], gesturePhase is >= 0, currentExpression is one of the five
\* moods, and expressionIntensity is in [0, 0.6]
C34_StateRanges ==
    \A i \in Instances :
        /\ anim[i].currentGesture \in 0..6
        /\ anim[i].previousGesture \in 0..6
        /\ InUnit(anim[i].gestureTransitionProgress)
        /\ InUnit(anim[i].expressionTransitionProgress)
        /\ anim[i].gesturePhase >= 0
        /\ anim[i].currentExpression \in Moods
        /\ anim[i].expressionIntensity >= 0
        /\ anim[i].expressionIntensity <= Milli(600)

\* after a stall of 3 s in speech: the highest variant, a mood at nearly the
\* greatest intensity, another variant before it, the cross-fade complete
C34_Witness ==
    /\ anim[1].isSpeaking
    /\ anim[1].currentGesture = 6
    /\ anim[1].previousGesture \in 1..6
    /\ anim[1].gesturePhase > 0
    /\ anim[1].gestureTransitionProgress = Scale
    /\ anim[1].currentExpression = "relaxed"
    /\ anim[1].expressionIntensity > Milli(590)

\* the number of vrm.expressionManager.setValue calls for weight k in the
\* frame that left the state a: one in the block that applies the
\* expressions, and for 'surprised' the eyebrow write as well
SetValueCalls(a, k) ==
    IF k = "surprised" /\ a.isSpeaking /\ a.currentExpression = "neutral"
    THEN 2 ELSE 1

\* the smoothed current value of the channel of weight k, as the block that
\* applies the expressions passes it on
OwnChannelValue(a, k) ==
    IF k \in DOMAIN a.mouthShapes THEN Min(a.mouthShapes[k], Scale)
    ELSE a.expressionValues[k]

\* C35: after every frame each expression weight has been written at most
\* once and holds the smoothed current value of its own channel; the
\* 'surprised' weight equals expressionValues.surprised, also while
\* speaking with a neutral mood
C35_SingleWriter ==
    \A i \in Instances :
        anim[i].frameCount > 0 =>
            \A k \in AppliedKeys :
                /\ SetValueCalls(anim[i], k) <= 1
                /\ anim[i].applied[k] = OwnChannelValue(anim[i], k)

====
